---- MODULE Spec2Model ----
(***************************************************************************)
(* Content-defined chunking of iscc-rs (src/did.rs): the Boundary          *)
(* Evaluator chunk_length, and the Chunking Engine Chunk::new /            *)
(* <Chunk as Iterator>::next over a byte source.                           *)
(*                                                                         *)
(* Bytes are naturals 0..255, byte strings are sequences (1-based, so the  *)
(* code's data[i] is data[i + 1] here).  A u64 is a tuple of four 16-bit   *)
(* limbs, least significant first, because TLC's integers are 32 bits.     *)
(***************************************************************************)
EXTENDS Integers, Sequences, FiniteSets, TLC

VARIABLES
    data,       \* Chunk.data: the File; [src, pos] = content and read cursor
    counter,    \* Chunk.counter
    section,    \* Chunk.section
    state,      \* the session: opened / active / done / panicked (or call)
    emitted,    \* history: the chunks next() has returned, in order
    phases,     \* history: the Parameter Set that cut each emitted chunk
    windows,    \* history: per chunk, window length and input left when cut
    shortLeft,  \* environment: short reads the source may still deliver
    run,        \* 1 for the first session over the content, 2 for the second
    first,      \* the chunk sequence of the finished first session
    call,       \* a direct chunk_length call: its arguments
    ret         \* that call's result, once it has returned

vars == <<data, counter, section, state, emitted, phases, windows,
          shortLeft, run, first, call, ret>>

-----------------------------------------------------------------------------
(* Program constants, src/did.rs lines 11-20.                              *)

GEAR1_NORM == 40
GEAR1_MIN == 20
GEAR1_MAX == 640
GEAR2_NORM == 4096
GEAR2_MIN == 2048
GEAR2_MAX == 65536

\* The chunk index at which next() switches Parameter Set (lines 116, 132).
PhaseSwitch == 100

LimbBase == 2 ^ 16

\* 0x0001_6118
GEAR1_MASK1 == <<24856, 1, 0, 0>>
\* 0x0000_A0B1
GEAR1_MASK2 == <<41137, 0, 0, 0>>
\* 0x0003_5907_0353_0000
GEAR2_MASK1 == <<0, 851, 22791, 3>>
\* 0x0000_D900_0353_0000
GEAR2_MASK2 == <<0, 851, 55552, 0>>

-----------------------------------------------------------------------------
(* u64 arithmetic as the code uses it (line 97, 98).                       *)

U64Zero == <<0, 0, 0, 0>>

\* pattern << 1 on a u64: the bit shifted out of the top limb is lost.
Shl1(p) ==
    <<(2 * p[1]) % LimbBase,
      ((2 * p[2]) % LimbBase) + (p[1] \div (LimbBase \div 2)),
      ((2 * p[3]) % LimbBase) + (p[2] \div (LimbBase \div 2)),
      ((2 * p[4]) % LimbBase) + (p[3] \div (LimbBase \div 2))>>

\* u64::wrapping_add: addition modulo 2^64.
WrappingAdd(a, b) ==
    LET s1 == a[1] + b[1]
        s2 == a[2] + b[2] + (s1 \div LimbBase)
        s3 == a[3] + b[3] + (s2 \div LimbBase)
        s4 == a[4] + b[4] + (s3 \div LimbBase)
    IN  <<s1 % LimbBase, s2 % LimbBase, s3 % LimbBase, s4 % LimbBase>>

\* (a & b) == 0: no bit is set in both.
AndIsZero(a, b) ==
    \A l \in 1..4 :
        \/ a[l] = 0
        \/ b[l] = 0
        \/ \A k \in 0..15 :
              \/ (a[l] \div (2 ^ k)) % 2 = 0
              \/ (b[l] \div (2 ^ k)) % 2 = 0

-----------------------------------------------------------------------------
(* crate::constants::CHUNKING_GEAR is not part of src/: a fixed table of   *)
(* 256 64-bit weights.  Modelled as byte * 0x9E3779B97F4A7C15 mod 2^64.    *)

GearMultiplier == <<31765, 32586, 31161, 40503>>

CHUNKING_GEAR ==
    [b \in 0..255 |->
        LET m1 == b * GearMultiplier[1]
            m2 == (b * GearMultiplier[2]) + (m1 \div LimbBase)
            m3 == (b * GearMultiplier[3]) + (m2 \div LimbBase)
            m4 == (b * GearMultiplier[4]) + (m3 \div LimbBase)
        IN  <<m1 % LimbBase, m2 % LimbBase, m3 % LimbBase, m4 % LimbBase>>]

-----------------------------------------------------------------------------
(* chunk_length, src/did.rs lines 76-105.                                  *)

Min(a, b) == IF a <= b THEN a ELSE b

\* A variant that returns the position after the matching byte.
TestMaskPastMatch(i, mask, p) ==
    IF AndIsZero(p, mask)
    THEN [hit |-> TRUE, i |-> i + 1, pattern |-> p, oob |-> FALSE]
    ELSE [hit |-> FALSE, i |-> i + 1, pattern |-> p, oob |-> FALSE]

\* Lines 98-101 at index i, the accumulator already updated to p: a match
\* returns i, and otherwise i moves on by one.
TestMask(i, mask, p) ==
    IF AndIsZero(p, mask)
    THEN [hit |-> TRUE, i |-> i, pattern |-> p, oob |-> FALSE]
    ELSE [hit |-> FALSE, i |-> i + 1, pattern |-> p, oob |-> FALSE]

\* One pass of the body of `while i < *barrier` (lines 96-101) at index i.
\* data[i] with i outside the slice panics: oob records it and the scan stops.
ScanStep(bytes, i, mask, pattern) ==
    IF i < 0 \/ i >= Len(bytes)
    THEN [hit |-> TRUE, i |-> i, pattern |-> pattern, oob |-> TRUE]
    ELSE CHOOSE r \in
             {TestMask(i, mask, p) :
                 p \in {WrappingAdd(Shl1(pattern),
                                    CHUNKING_GEAR[bytes[i + 1]])}} : TRUE

\* The rest of the loop after its iterations lo..mid-1 ended in `left`: a
\* match returned there ends it, and otherwise it goes on from mid with the
\* accumulator as those iterations left it.
RECURSIVE ScanLoop(_, _, _, _, _)
ScanRest(bytes, mid, barrier, mask, left) ==
    IF left.hit THEN left
    ELSE ScanLoop(bytes, mid, barrier, mask, left.pattern)

\* The loop over lo..barrier-1 as its iterations lo..mid-1 followed by the
\* rest; those iterations are evaluated once, as the one element of a set.
ScanHalves(bytes, lo, mid, barrier, mask, pattern) ==
    CHOOSE r \in
        {ScanRest(bytes, mid, barrier, mask, left) :
            left \in {ScanLoop(bytes, lo, mid, mask, pattern)}} : TRUE

\* `while i < *barrier { ... }` (lines 95-102) run from i = lo with the given
\* accumulator.  The iterations lo..barrier-1 run in order, the first half
\* before the second, which keeps the evaluation depth logarithmic.
ScanLoop(bytes, lo, barrier, mask, pattern) ==
    IF lo >= barrier
    THEN [hit |-> FALSE, i |-> lo, pattern |-> pattern, oob |-> FALSE]
    ELSE IF barrier = lo + 1
    THEN ScanStep(bytes, lo, mask, pattern)
    ELSE CHOOSE r \in
             {ScanHalves(bytes, lo, mid, barrier, mask, pattern) :
                 mid \in {(lo + barrier) \div 2}} : TRUE

\* What the function hands back once the `for` is over: the value returned
\* (b), the accumulator as the last iteration left it, and whether that
\* iteration returned on a match.
Outcome(scan) ==
    [b |-> scan.i, oob |-> scan.oob, pattern |-> scan.pattern,
     hit |-> scan.hit]

\* A variant that ends after the first pass.
SecondScanSkipped(bytes, barrier_2, mask_2, scan_1) == Outcome(scan_1)

\* A variant whose second pass starts from a fresh accumulator.
SecondScanResets(bytes, barrier_2, mask_2, scan_1) ==
    IF scan_1.hit
    THEN Outcome(scan_1)
    ELSE CHOOSE r \in
             {Outcome(scan_2) :
                 scan_2 \in {ScanLoop(bytes, scan_1.i, barrier_2, mask_2,
                                      <<0, 0, 0, 0>>)}} : TRUE

\* The second pass of the `for` (mask_2 up to barrier_2), entered with i and
\* the accumulator as the first pass left them unless that pass returned.
SecondScan(bytes, barrier_2, mask_2, scan_1) ==
    IF scan_1.hit
    THEN Outcome(scan_1)
    ELSE CHOOSE r \in
             {Outcome(scan_2) :
                 scan_2 \in {ScanLoop(bytes, scan_1.i, barrier_2, mask_2,
                                      scan_1.pattern)}} : TRUE

\* The iterations of the `while` a call made: i starts at min_size and moves
\* on by one per iteration that does not return.
Examined(min_size, out) ==
    [b |-> out.b, oob |-> out.oob, pattern |-> out.pattern,
     examined |-> (out.b - min_size) + (IF out.hit THEN 1 ELSE 0)]

\* A variant without the early return of lines 87-89.
ChunkLengthRunNoEarly(bytes, norm_size, min_size, max_size, mask_1, mask_2) ==
    LET data_length == Len(bytes)
        barrier_1   == Min(norm_size, data_length)
        barrier_2   == Min(max_size, data_length)
    IN  CHOOSE r \in
            {Examined(min_size, out) :
                out \in {SecondScan(bytes, barrier_2, mask_2, scan_1) :
                            scan_1 \in {ScanLoop(bytes, min_size, barrier_1,
                                                 mask_1, <<0, 0, 0, 0>>)}}} :
            TRUE

\* The whole function: the value returned (b), whether an index left the
\* slice on the way (oob), the accumulator when it returned and the number of
\* bytes it looked up (none, and no accumulator, on the early return).
ChunkLengthRun(bytes, norm_size, min_size, max_size, mask_1, mask_2) ==
    LET data_length == Len(bytes)
        barrier_1   == Min(norm_size, data_length)
        barrier_2   == Min(max_size, data_length)
    IN  IF data_length <= min_size
        THEN [b |-> data_length, oob |-> FALSE, pattern |-> U64Zero,
              examined |-> 0]
        ELSE CHOOSE r \in
                 {Examined(min_size, out) :
                     out \in {SecondScan(bytes, barrier_2, mask_2, scan_1) :
                                 scan_1 \in {ScanLoop(bytes, min_size,
                                                      barrier_1, mask_1,
                                                      U64Zero)}}} : TRUE

chunk_length(bytes, norm_size, min_size, max_size, mask_1, mask_2) ==
    ChunkLengthRun(bytes, norm_size, min_size, max_size, mask_1, mask_2).b

-----------------------------------------------------------------------------
(* The two Parameter Sets next() passes to chunk_length (lines 124-131 and *)
(* 140-147), chosen by the counter (line 116).                             *)

FineSet ==
    [name |-> "fine", norm |-> GEAR1_NORM, min |-> GEAR1_MIN,
     max |-> GEAR1_MAX, mask_1 |-> GEAR1_MASK1, mask_2 |-> GEAR1_MASK2]

CoarseSet ==
    [name |-> "coarse", norm |-> GEAR2_NORM, min |-> GEAR2_MIN,
     max |-> GEAR2_MAX, mask_1 |-> GEAR2_MASK1, mask_2 |-> GEAR2_MASK2]

\* A variant that switches one chunk late.
ActiveSetLate(c) == IF c <= PhaseSwitch THEN FineSet ELSE CoarseSet

ActiveSet(c) == IF c < PhaseSwitch THEN FineSet ELSE CoarseSet

-----------------------------------------------------------------------------
(* The byte sources the sessions run over.                                 *)

\* Most short reads one session's source delivers.
MaxShortReads == 2
\* The sizes of the short reads.
ShortSmall == 7
ShortLarge == 50
\* Bytes after the last full-size chunk of a source.
TailLen == 9
\* Most chunks a session is followed for.
MaxChunks == 110

Rep(b, n) == [j \in 1..n |-> b]

\* Byte 0 has gear weight 0, so a window of zeros is cut at min_size; a run of
\* byte 1 matches no mask, so it is cut at max_size or at the window's end.
Sources ==
    << <<>>,
       Rep(1, TailLen),
       Rep(1, GEAR1_MIN),
       Rep(1, 21) \o Rep(0, 30) \o Rep(1, TailLen),
       Rep(1, 50) \o Rep(0, 20) \o Rep(1, 30 + TailLen),
       Rep(1, GEAR1_MAX),
       Rep(1, GEAR1_MAX + 1),
       Rep(1, 2 * GEAR1_MAX),
       Rep(1, GEAR1_MAX + GEAR1_MIN + TailLen),
       Rep(0, PhaseSwitch * GEAR1_MIN + 2 * GEAR2_MIN + TailLen),
       Rep(0, PhaseSwitch * GEAR1_MIN) \o Rep(1, GEAR2_MIN + 52)
           \o Rep(0, GEAR2_MIN + TailLen),
       Rep(1, 21) \o Rep(0, 30) \o Rep(1, GEAR1_MAX) >>

\* A source longer than two coarse reads, for the sessions that are about the
\* size of the buffer.
LongSource == Rep(0, 2 * GEAR2_MAX + GEAR2_MIN + TailLen)

\* The file's bytes: source 0 is the long one.
Content(f) == IF f.src = 0 THEN LongSource ELSE Sources[f.src]

\* What Read::read may return for a buffer of n bytes: every byte available
\* up to n, or, while the source still delivers short reads, fewer (never 0
\* unless the source is at its end).
ReadSizes(f, n, budget) ==
    LET avail == Min(n, Len(Content(f)) - f.pos)
    IN  {avail} \cup
        (IF budget > 0 THEN {s \in {ShortSmall, ShortLarge} : s < avail} ELSE {})

\* The bytes a read of n bytes returns, and the file after it.
ReadBytes(f, n) == SubSeq(Content(f), f.pos + 1, f.pos + n)

Advance(f, n) == [f EXCEPT !.pos = f.pos + n]

ShortUsed(f, req, n) == IF n < Min(req, Len(Content(f)) - f.pos) THEN 1 ELSE 0

-----------------------------------------------------------------------------
(* Chunk::new, lines 59-69.                                                *)

\* A variant that takes the whole read buffer, not the n bytes read into it.
NewWholeBuffer(n) ==
    /\ state = "opened"
    /\ data' = Advance(data, n)
    /\ counter' = 0
    /\ section' = ReadBytes(data, n) \o Rep(0, GEAR1_MAX - n)
    /\ state' = "active"
    /\ shortLeft' = shortLeft - ShortUsed(data, GEAR1_MAX, n)
    /\ UNCHANGED <<emitted, phases, windows, run, first, call, ret>>

\* The read succeeds with n bytes.
New(n) ==
    /\ state = "opened"
    /\ data' = Advance(data, n)
    /\ counter' = 0
    /\ section' = ReadBytes(data, n)
    /\ state' = "active"
    /\ shortLeft' = shortLeft - ShortUsed(data, GEAR1_MAX, n)
    /\ UNCHANGED <<emitted, phases, windows, run, first, call, ret>>

\* The read fails: unwrap() panics (line 61).
NewFails ==
    /\ state = "opened"
    /\ state' = "panicked"
    /\ UNCHANGED <<data, counter, section, emitted, phases, windows,
                   shortLeft, run, first, call, ret>>

-----------------------------------------------------------------------------
(* <Chunk as Iterator>::next, lines 109-152.                               *)

\* A variant that reads on every call.
RefillsAlways == TRUE

\* A variant that refills only a buffer shorter than min_size.
RefillsBelowMin == Len(section) < ActiveSet(counter).min

\* A variant that tests the buffer against the fine max_size in both phases.
RefillsFineOnly == Len(section) < GEAR1_MAX

\* Whether this call reads from the file (lines 117 and 133).
Refills == Len(section) < ActiveSet(counter).max

\* The local `section` after the refill attempt, the read returning n bytes.
Refilled(n) == IF Refills THEN section \o ReadBytes(data, n) ELSE section

Boundary(sec, set) ==
    chunk_length(sec, set.norm, set.min, set.max, set.mask_1, set.mask_2)

\* A variant that loses the byte at the boundary.
RestDropsByte(sec, boundary) == SubSeq(sec, boundary + 2, Len(sec))

\* The rest assigned to self.section (line 149).
Rest(sec, boundary) == SubSeq(sec, boundary + 1, Len(sec))

\* The chunk returned (line 151).
Cut(sec, boundary) == SubSeq(sec, 1, boundary)

\* A variant without the emptiness check.
is_empty_never(sec) == FALSE

\* section.is_empty() (lines 121 and 137).
is_empty(sec) == Len(sec) = 0

\* What the read of this call may return.
NextReads ==
    IF Refills THEN ReadSizes(data, GEAR2_MAX, shortLeft) ELSE {0}

\* A variant that counts the call before it looks at the buffer, so that a
\* call returning None is counted too.
NextCallCountsNone(n) ==
    /\ state \in {"active", "done"}
    /\ counter < MaxChunks
    /\ \E sec \in {Refilled(n)} :
          IF is_empty(sec)
          THEN /\ state' = "done"
               /\ counter' = counter + 1
               /\ UNCHANGED <<data, section, emitted, phases, windows,
                              shortLeft>>
          ELSE \E boundary \in {Boundary(sec, ActiveSet(counter))} :
               /\ state' = "active"
               /\ data' = Advance(data, n)
               /\ section' = Rest(sec, boundary)
               /\ counter' = counter + 1
               /\ emitted' = Append(emitted, Cut(sec, boundary))
               /\ phases' = Append(phases, ActiveSet(counter))
               /\ windows' = Append(windows,
                      [len |-> Len(sec), read |-> Refills, got |-> n,
                       left |-> Len(Content(data)) - (data.pos + n)])
               /\ shortLeft' = IF Refills
                               THEN shortLeft - ShortUsed(data, GEAR2_MAX, n)
                               ELSE shortLeft
    /\ UNCHANGED <<run, first, call, ret>>

\* next() returns Some(chunk) or None; n is what the read returned (0 when
\* the call does not read).
NextCall(n) ==
    /\ state \in {"active", "done"}
    /\ counter < MaxChunks
    /\ \E sec \in {Refilled(n)} :
          IF is_empty(sec)
          THEN /\ state' = "done"
               /\ UNCHANGED <<data, counter, section, emitted, phases,
                              windows, shortLeft>>
          ELSE \E boundary \in {Boundary(sec, ActiveSet(counter))} :
               /\ state' = "active"
               /\ data' = Advance(data, n)
               /\ section' = Rest(sec, boundary)
               /\ counter' = counter + 1
               /\ emitted' = Append(emitted, Cut(sec, boundary))
               /\ phases' = Append(phases, ActiveSet(counter))
               /\ windows' = Append(windows,
                      [len |-> Len(sec), read |-> Refills, got |-> n,
                       left |-> Len(Content(data)) - (data.pos + n)])
               /\ shortLeft' = IF Refills
                               THEN shortLeft - ShortUsed(data, GEAR2_MAX, n)
                               ELSE shortLeft
    /\ UNCHANGED <<run, first, call, ret>>

\* The read of a refilling call fails: unwrap() panics (lines 118, 134).
NextFails ==
    /\ state \in {"active", "done"}
    /\ counter < MaxChunks
    /\ Refills
    /\ state' = "panicked"
    /\ UNCHANGED <<data, counter, section, emitted, phases, windows,
                   shortLeft, run, first, call, ret>>

-----------------------------------------------------------------------------
(* A second session over the same content (data_chunks called again on the *)
(* same file), started once the first has returned None.                   *)

Reopen ==
    /\ state = "done"
    /\ run = 1
    /\ run' = 2
    /\ first' = emitted
    /\ data' = [data EXCEPT !.pos = 0]
    /\ counter' = 0
    /\ section' = <<>>
    /\ state' = "opened"
    /\ emitted' = <<>>
    /\ phases' = <<>>
    /\ windows' = <<>>
    /\ shortLeft' = MaxShortReads
    /\ UNCHANGED <<call, ret>>

-----------------------------------------------------------------------------
(* A direct call of the public function chunk_length.                      *)

\* Longest window and largest size parameter of a direct call.
MaxWindow == 5
MaxSize == 3

CallBytes == {0, 1}

\* Masks of the direct calls: no bit, bit 0, bit 1.
CallMasks == {U64Zero, <<1, 0, 0, 0>>, <<2, 0, 0, 0>>}

CallInputs ==
    [bytes : UNION {[1..n -> CallBytes] : n \in 0..MaxWindow},
     norm_size : 0..MaxSize, min_size : 0..MaxSize, max_size : 0..MaxSize,
     mask_1 : CallMasks, mask_2 : CallMasks]

NoCall ==
    [bytes |-> <<>>, norm_size |-> 0, min_size |-> 0, max_size |-> 0,
     mask_1 |-> U64Zero, mask_2 |-> U64Zero]

NoRet ==
    [returned |-> FALSE, b |-> 0, oob |-> FALSE, pattern |-> U64Zero,
     examined |-> 0]

Evaluate ==
    /\ state = "call"
    /\ ~ret.returned
    /\ LET r == ChunkLengthRun(call.bytes, call.norm_size, call.min_size,
                               call.max_size, call.mask_1, call.mask_2)
       IN  ret' = [returned |-> TRUE, b |-> r.b, oob |-> r.oob,
                   pattern |-> r.pattern, examined |-> r.examined]
    /\ UNCHANGED <<data, counter, section, state, emitted, phases, windows,
                   shortLeft, run, first, call>>

-----------------------------------------------------------------------------

Init ==
    /\ data \in {[src |-> k, pos |-> 0] : k \in 1..Len(Sources)}
    /\ counter = 0
    /\ section = <<>>
    /\ state = "opened"
    /\ emitted = <<>>
    /\ phases = <<>>
    /\ windows = <<>>
    /\ shortLeft = MaxShortReads
    /\ run = 1
    /\ first = <<>>
    /\ call = NoCall
    /\ ret = NoRet

Next ==
    \/ \E n \in ReadSizes(data, GEAR1_MAX, shortLeft) : New(n)
    \/ NewFails
    \/ \E n \in NextReads : NextCall(n)
    \/ NextFails
    \/ Reopen

Spec == Init /\ [][Next]_vars

\* One session whose reads do not fail, with every call that can be made
\* made.
NextReliable ==
    \/ \E n \in ReadSizes(data, GEAR1_MAX, shortLeft) : New(n)
    \/ \E n \in NextReads : NextCall(n)

FairSpec ==
    /\ Init
    /\ [][NextReliable]_vars
    /\ WF_vars(\E n \in ReadSizes(data, GEAR1_MAX, shortLeft) : New(n))
    /\ WF_vars(\E n \in NextReads : NextCall(n))

\* One session over the long source.
InitLong ==
    /\ data = [src |-> 0, pos |-> 0]
    /\ counter = 0
    /\ section = <<>>
    /\ state = "opened"
    /\ emitted = <<>>
    /\ phases = <<>>
    /\ windows = <<>>
    /\ shortLeft = MaxShortReads
    /\ run = 1
    /\ first = <<>>
    /\ call = NoCall
    /\ ret = NoRet

NextLong ==
    \/ \E n \in ReadSizes(data, GEAR1_MAX, shortLeft) : New(n)
    \/ NewFails
    \/ \E n \in NextReads : NextCall(n)
    \/ NextFails

LongSpec == InitLong /\ [][NextLong]_vars

\* Direct calls of chunk_length on every small window and parameter tuple.
InitCall ==
    /\ data = [src |-> 1, pos |-> 0]
    /\ counter = 0
    /\ section = <<>>
    /\ state = "call"
    /\ emitted = <<>>
    /\ phases = <<>>
    /\ windows = <<>>
    /\ shortLeft = 0
    /\ run = 1
    /\ first = <<>>
    /\ call \in CallInputs
    /\ ret = NoRet

NextCallSpec == Evaluate

CallSpec == InitCall /\ [][NextCallSpec]_vars

-----------------------------------------------------------------------------
(* Definitions the properties below are stated with.                       *)

\* The concatenation of chunks[lo..hi], in order.
RECURSIVE FlatRange(_, _, _)
FlatRange(chunks, lo, hi) ==
    IF lo > hi THEN <<>>
    ELSE IF lo = hi THEN chunks[lo]
    ELSE LET mid == (lo + hi) \div 2
         IN  FlatRange(chunks, lo, mid) \o FlatRange(chunks, mid + 1, hi)

Flat(chunks) == FlatRange(chunks, 1, Len(chunks))

\* The bytes of the source not read yet.
Unread == SubSeq(Content(data), data.pos + 1, Len(Content(data)))

\* p << k on a u64.
RECURSIVE ShlN(_, _)
ShlN(p, k) == IF k = 0 THEN p ELSE ShlN(Shl1(p), k - 1)

\* The sum, modulo 2^64, of gear[bytes[j]] << (i - j) for j in from..i: the
\* accumulator after absorbing bytes[from..i].
RECURSIVE PatternAt(_, _, _)
PatternAt(bytes, from, i) ==
    IF from > i THEN U64Zero
    ELSE WrappingAdd(ShlN(CHUNKING_GEAR[bytes[from + 1]], i - from),
                     PatternAt(bytes, from + 1, i))

\* The positions of a call's window at which the mask of their sub-scan
\* matches the accumulator.
MatchPositions(c) ==
    LET len == Len(c.bytes)
        b1  == Min(c.norm_size, len)
        b2  == Min(c.max_size, len)
    IN  {i \in c.min_size..(len - 1) :
            \/ i < b1 /\ AndIsZero(PatternAt(c.bytes, c.min_size, i), c.mask_1)
            \/ /\ b1 <= i
               /\ i < b2
               /\ AndIsZero(PatternAt(c.bytes, c.min_size, i), c.mask_2)}

ValidSet(c) == c.min_size <= c.norm_size /\ c.norm_size <= c.max_size

\* The fine and the coarse Parameter Set by their values.
IsFine(set) ==
    /\ set.norm = 40
    /\ set.min = 20
    /\ set.max = 640
    /\ set.mask_1 = GEAR1_MASK1
    /\ set.mask_2 = GEAR1_MASK2

IsCoarse(set) ==
    /\ set.norm = 4096
    /\ set.min = 2048
    /\ set.max = 65536
    /\ set.mask_1 = GEAR2_MASK1
    /\ set.mask_2 = GEAR2_MASK2

-----------------------------------------------------------------------------
(* C1  Coverage: at every point of a session the chunks emitted so far,    *)
(* then the buffer, then the bytes not yet read, are the source; when      *)
(* next() has returned None the emitted chunks alone are the source.       *)
C1_Coverage ==
    /\ Flat(emitted) \o section \o Unread = Content(data)
    /\ state = "done" => Flat(emitted) = Content(data)

\* A finished session of several chunks over a source longer than one read
\* of Chunk::new, one of whose reads was short.
C1_Witness ==
    /\ state = "done"
    /\ Len(emitted) >= 3
    /\ shortLeft < MaxShortReads
    /\ Len(Content(data)) > GEAR1_MAX

(* C2  Bounds: every chunk is at most max_size of its phase, and a chunk   *)
(* shorter than min_size is emitted only when no input remains in the      *)
(* source, for every source the interface allows (short reads included).   *)
C2_Bounds ==
    \A k \in 1..Len(emitted) :
        /\ Len(emitted[k]) <= phases[k].max
        /\ Len(emitted[k]) < phases[k].min => windows[k].left = 0

(* C3  Determinism: a second session over the same bytes yields the same   *)
(* chunk sequence as the first, however the reads split the bytes.         *)
C3_Determinism ==
    (run = 2 /\ state = "done") => emitted = first

(* C4  Read failure: a failed read is returned to the caller as an error;  *)
(* the session does not panic.                                             *)
C4_ReadFailureReported ==
    state # "panicked"

(* C5  Termination: when no read fails, every session eventually has       *)
(* next() return None.                                                     *)
C5_Termination ==
    (state \in {"opened", "active"}) ~> (state = "done")

\* A session that went through both phases and returned None.
C5_Witness ==
    /\ state = "done"
    /\ Len(emitted) > PhaseSwitch

(* C6  No empty chunk: every chunk next() returns has at least one byte,   *)
(* also when the source length is an exact multiple of max_size.           *)
C6_NoEmptyChunk ==
    \A k \in 1..Len(emitted) : Len(emitted[k]) >= 1

\* A finished session over a source of exactly twice the fine max_size, cut
\* into two chunks of max_size.
C6_Witness ==
    /\ state = "done"
    /\ Len(Content(data)) = 2 * GEAR1_MAX
    /\ Len(emitted) = 2
    /\ Len(emitted[1]) = GEAR1_MAX
    /\ Len(emitted[2]) = GEAR1_MAX

(* C7  Phase switch: chunk k (from 0) is cut with the fine Parameter Set   *)
(* iff k < 100 and with the coarse one iff k >= 100; after a coarse chunk  *)
(* no chunk is fine.                                                       *)
C7_PhaseSwitch ==
    /\ \A k \in 1..Len(phases) :
          /\ IsFine(phases[k]) <=> k - 1 < 100
          /\ IsCoarse(phases[k]) <=> k - 1 >= 100
    /\ \A j, k \in 1..Len(phases) :
          (j < k /\ IsCoarse(phases[j])) => ~IsFine(phases[k])

\* A session whose chunk 99 was fine and whose chunks 100 and 101 coarse.
C7_Witness ==
    /\ Len(phases) >= 102
    /\ IsFine(phases[100])
    /\ IsCoarse(phases[101])
    /\ IsCoarse(phases[102])
    /\ Len(emitted[102]) > Len(emitted[100])

(* C9  Boundary Evaluator range: for a non-empty window and a Parameter    *)
(* Set with min_size <= normalized_size <= max_size, chunk_length returns  *)
(* b with 0 < b <= len(data) and indexes only inside the window.           *)
C9_Range ==
    (ret.returned /\ Len(call.bytes) > 0 /\ ValidSet(call)) =>
        /\ 0 < ret.b
        /\ ret.b <= Len(call.bytes)
        /\ ~ret.oob

(* C10  Boundary Evaluator first match: for a window longer than min_size  *)
(* in which some position's accumulator matches the mask of its sub-scan,  *)
(* chunk_length returns the smallest such position.                        *)
C10_FirstMatch ==
    (/\ ret.returned
     /\ Len(call.bytes) > call.min_size
     /\ MatchPositions(call) # {}) =>
        /\ ret.b \in MatchPositions(call)
        /\ \A i \in MatchPositions(call) : ret.b <= i

\* A call that returned a primary-mask match lying inside
\* [min_size, normalized_size) after positions that did not match.
C10_Witness ==
    /\ ret.returned
    /\ ValidSet(call)
    /\ call.min_size < ret.b
    /\ ret.b < Min(call.norm_size, Len(call.bytes))
    /\ ret.b \in MatchPositions(call)
    /\ call.mask_1 # U64Zero

(* C11  Boundary Evaluator hard cutoff: for a window longer than min_size   *)
(* and a Parameter Set with min_size <= normalized_size <= max_size, when   *)
(* no position of either sub-scan matches its mask, chunk_length returns    *)
(* min(max_size, len(data)).                                                *)
C11_HardCutoff ==
    (/\ ret.returned
     /\ Len(call.bytes) > call.min_size
     /\ ValidSet(call)
     /\ MatchPositions(call) = {}) =>
        ret.b = Min(call.max_size, Len(call.bytes))

\* A call that scanned positions of both sub-scans under masks with a bit
\* set, matched nowhere, and was cut by max_size before the window's end.
C11_Witness ==
    /\ ret.returned
    /\ ValidSet(call)
    /\ call.min_size < call.norm_size
    /\ call.norm_size < call.max_size
    /\ call.max_size < Len(call.bytes)
    /\ call.mask_1 # U64Zero
    /\ call.mask_2 # U64Zero
    /\ MatchPositions(call) = {}
    /\ ret.b = call.max_size

(* C12  Boundary Evaluator short window: for a window with len(data) <=     *)
(* min_size, the empty one included, chunk_length returns len(data) and     *)
(* looks up no byte and tests no mask.                                      *)
C12_ShortWindow ==
    (ret.returned /\ Len(call.bytes) <= call.min_size) =>
        /\ ret.b = Len(call.bytes)
        /\ ret.examined = 0
        /\ ~ret.oob

\* A call on a non-empty window shorter than min_size whose bytes would
\* match the mask if they were tested.
C12_Witness ==
    /\ ret.returned
    /\ Len(call.bytes) > 0
    /\ Len(call.bytes) < call.min_size
    /\ call.mask_1 = U64Zero
    /\ ret.b = Len(call.bytes)

(* C17  Rolling pattern: the accumulator a call ends with is the sum modulo *)
(* 2^64 of gear[data[j]] << (i - j) over the positions j from min_size to   *)
(* the last position i it scanned, whichever sub-scan i lies in: it starts  *)
(* at 0 in each call, takes (pattern << 1) + gear[data[i]] at each          *)
(* position, and passes unchanged from the first sub-scan into the second.  *)
C17_RollingPattern ==
    (ret.returned /\ ret.examined > 0) =>
        ret.pattern =
            PatternAt(call.bytes, call.min_size,
                      call.min_size + ret.examined - 1)

\* A call that scanned positions of the first sub-scan and then of the
\* second, over bytes of non-zero weight.
C17_Witness ==
    /\ ret.returned
    /\ call.min_size < Min(call.norm_size, Len(call.bytes))
    /\ call.min_size + ret.examined > Min(call.norm_size, Len(call.bytes)) + 1
    /\ \A j \in 1..Len(call.bytes) : call.bytes[j] = 1
    /\ ret.pattern # U64Zero

(* C13  Empty source: over a source of length zero whose reads do not fail, *)
(* Chunk::new and next() raise no error, no chunk is ever emitted, and the  *)
(* first call of next() returns None.                                       *)
C13_EmptySource ==
    /\ [](Len(Content(data)) = 0 =>
            (emitted = <<>> /\ state \in {"opened", "active", "done"}))
    /\ [][(Len(Content(data)) = 0 /\ state = "active") =>
            (state' = "done" /\ emitted' = <<>>)]_vars

\* The session over the empty source after its first next().
C13_Witness ==
    /\ Len(Content(data)) = 0
    /\ state = "done"
    /\ counter = 0
    /\ emitted = <<>>

(* C14  Configuration error: a Parameter Set that violates min_size <=       *)
(* normalized_size <= max_size is rejected when it is supplied: no call of  *)
(* chunk_length with such a set returns a boundary.                         *)
C14_ConfigurationRejected ==
    ret.returned => ValidSet(call)

(* C15  Read-ahead sufficiency: whenever next() calls the Boundary          *)
(* Evaluator, the window is at least max_size of the active phase long or   *)
(* the source has nothing left to read, short reads included.               *)
C15_ReadAhead ==
    \A k \in 1..Len(windows) :
        \/ windows[k].len >= phases[k].max
        \/ windows[k].left = 0

(* C16  Chunk counter: within a session the counter is the number of chunks *)
(* emitted so far, 0 after Chunk::new; a next() that returns a chunk adds   *)
(* exactly 1, a next() that returns None leaves counter and buffer as they  *)
(* were, and the counter never decreases.                                   *)
C16_Counter ==
    /\ [](state \in {"active", "done"} => counter = Len(emitted))
    /\ [][run' = run =>
            /\ \/ counter' = counter /\ emitted' = emitted
               \/ counter' = counter + 1 /\ Len(emitted') = Len(emitted) + 1
            /\ (state \in {"active", "done"} /\ state' = "done") =>
                   (counter' = counter /\ section' = section)]_vars

\* A session that emitted chunks in both phases and then returned None.
C16_Witness ==
    /\ state = "done"
    /\ counter > PhaseSwitch
    /\ counter = Len(emitted)
    /\ section = <<>>

(* C18  Refill condition: a next() that returns a chunk has read from the   *)
(* source, once, iff the buffer at entry was shorter than max_size of the   *)
(* active phase (640 when counter < 100, 65536 otherwise); a call that does *)
(* not read leaves the source where it was; the bytes read are appended to  *)
(* the buffer, whose bytes stay as they were and in front; a call that      *)
(* returns None consumes nothing.                                           *)
C18_Refill ==
    [][(run' = run /\ state \in {"active", "done"}
            /\ state' \in {"active", "done"}) =>
        IF Len(emitted') = Len(emitted) + 1
        THEN LET w   == windows'[Len(windows')]
                 max == IF counter < 100 THEN 640 ELSE 65536
             IN  /\ w.read <=> Len(section) < max
                 /\ ~w.read => data' = data
                 /\ data'.pos = data.pos + (IF w.read THEN w.got ELSE 0)
                 /\ emitted'[Len(emitted')] \o section' =
                        section \o SubSeq(Content(data), data.pos + 1,
                                          data'.pos)
        ELSE data' = data /\ section' = section]_vars

\* A session one of whose coarse calls read into a buffer that already held
\* 640 bytes or more, and one of whose fine calls did not read.
C18_Witness ==
    /\ \E k \in 1..Len(windows) :
          /\ IsCoarse(phases[k])
          /\ windows[k].read
          /\ windows[k].len - windows[k].got >= 640
    /\ \E k \in 1..Len(windows) : IsFine(phases[k]) /\ ~windows[k].read

(* C20  Equivalence with whole-stream chunking: in a session all of whose   *)
(* reads returned min(requested, remaining) bytes, every chunk is what      *)
(* chunk_length cuts from the whole unconsumed remainder of the stream      *)
(* (fine Parameter Set for chunk indices < 100, coarse from 100 on), and    *)
(* the session ends exactly when that remainder is empty.  Each state       *)
(* checks its latest chunk; the earlier ones were checked when emitted.     *)
C20_WholeStream ==
    shortLeft = MaxShortReads =>
        /\ Len(emitted) > 0 =>
              LET k     == Len(emitted)
                  off   == data.pos - Len(section) - Len(emitted[k])
                  whole == SubSeq(Content(data), off + 1, Len(Content(data)))
                  set   == IF k - 1 < 100 THEN FineSet ELSE CoarseSet
              IN  emitted[k] =
                      SubSeq(whole, 1,
                             chunk_length(whole, set.norm, set.min, set.max,
                                          set.mask_1, set.mask_2))
        /\ state = "done" =>
              data.pos - Len(section) = Len(Content(data))

\* A finished session without short reads, one of whose chunks was cut by a
\* mask match while bytes of the source were unread.
C20_Witness ==
    /\ state = "done"
    /\ shortLeft = MaxShortReads
    /\ Len(emitted) >= 3
    /\ \E k \in 1..Len(windows) :
          /\ windows[k].left > 0
          /\ Len(emitted[k]) < phases[k].max
          /\ Len(emitted[k]) > phases[k].min

(* C19  Bounded buffer: in every state of a session, over a source of any   *)
(* length, the buffer holds fewer than 2 x 65536 bytes, and so does the     *)
(* window next() builds from it by a refill.                                *)
C19_BoundedBuffer ==
    /\ Len(section) < 2 * 65536
    /\ \A k \in 1..Len(windows) : windows[k].len < 2 * 65536

\* A session over a source longer than 2 x 65536 bytes whose refill added a
\* whole read of 65536 bytes to a buffer that was not empty.
C19_Witness ==
    /\ Len(Content(data)) > 2 * 65536
    /\ \E k \in 1..Len(windows) :
          /\ windows[k].read
          /\ windows[k].got = 65536
          /\ windows[k].len > 65536
    /\ Len(section) > 65536

====
